---- MODULE Spec2Model ----
(***************************************************************************)
(* DevForge chat command router and its command pipelines                  *)
(* (src/src/extension.ts).                                                 *)
(*                                                                         *)
(* JavaScript strings are sequences of one-character strings, so that      *)
(* trim, split, toLowerCase, includes, replace and path.join are computed  *)
(* character by character.  undefined and '' are both the empty sequence   *)
(* wherever the code only tests truthiness.                                *)
(***************************************************************************)
EXTENDS Integers, Sequences, FiniteSets, TLC

VARIABLES
    view,      \* DevForgeChatProvider._view is set
    root,      \* workspaceFolders?.[0]?.uri.fsPath (<<>> when no folder is open)
    editor,    \* activeTextEditor?.document file path (<<>> when no editor)
    fs,        \* the file system: absolute path -> [kind, content]
    cmds,      \* the lines the user has submitted so far, as typed
    pending,   \* messages posted by the webview script, not yet received
    inv,       \* the command handler invocations started so far
    msgs       \* the messages delivered to the webview, in order

vars == <<view, root, editor, fs, cmds, pending, inv, msgs>>

\* ------------------------------------------------------------ bounds

MaxSubmits == 1

\* the largest number of matching files whose every discovery order is explored
MaxPermuted == 3

\* user actions in a run of the help specification
MaxHelpSubmits == 2

\* user actions in a run of the concurrent Generate-and-Verify specification
MaxPairSubmits == 2

\* ------------------------------------------------------------ strings

Upper == <<"A","B","C","D","E","F","G","H","I","J","K","L","M",
           "N","O","P","Q","R","S","T","U","V","W","X","Y","Z">>
Lower == <<"a","b","c","d","e","f","g","h","i","j","k","l","m",
           "n","o","p","q","r","s","t","u","v","w","x","y","z">>

IsWs(c) == c \in {" ", "\t"}

ToLowerChar(c) ==
    IF \E i \in 1..26 : Upper[i] = c
    THEN Lower[CHOOSE i \in 1..26 : Upper[i] = c]
    ELSE c

ToLowerCase(s) == [i \in 1..Len(s) |-> ToLowerChar(s[i])]

\* String.prototype.trim
Trim(s) ==
    LET nonWs == {i \in 1..Len(s) : ~IsWs(s[i])}
    IN  IF nonWs = {} THEN <<>>
        ELSE SubSeq(s, CHOOSE i \in nonWs : \A j \in nonWs : i <= j,
                       CHOOSE i \in nonWs : \A j \in nonWs : j <= i)

\* String.prototype.split(/\s+/): the pieces between maximal runs of whitespace
RECURSIVE SplitWs(_)
SplitWs(s) ==
    LET ws == {i \in 1..Len(s) : IsWs(s[i])}
    IN  IF ws = {} THEN <<s>>
        ELSE LET i    == CHOOSE k \in ws : \A j \in ws : k <= j
                 rest == {k \in i..Len(s) : ~IsWs(s[k])}
                 j    == IF rest = {} THEN Len(s) + 1
                         ELSE CHOOSE k \in rest : \A m \in rest : k <= m
             IN  <<SubSeq(s, 1, i - 1)>> \o SplitWs(SubSeq(s, j, Len(s)))

\* Array.prototype.join
RECURSIVE Join(_, _)
Join(parts, sep) ==
    IF parts = <<>> THEN <<>>
    ELSE IF Len(parts) = 1 THEN parts[1]
    ELSE parts[1] \o sep \o Join(Tail(parts), sep)

StartsWithAt(s, i, p) ==
    /\ i + Len(p) - 1 <= Len(s)
    /\ \A k \in 1..Len(p) : s[i + k - 1] = p[k]

\* String.prototype.includes
Includes(s, sub) == \E i \in 1..(Len(s) + 1) : StartsWithAt(s, i, sub)

\* ------------------------------------------------------------ paths (node path, posix)

RECURSIVE SplitSlash(_)
SplitSlash(s) ==
    LET sl == {i \in 1..Len(s) : s[i] = "/"}
    IN  IF sl = {} THEN <<s>>
        ELSE LET i == CHOOSE k \in sl : \A j \in sl : k <= j
             IN  <<SubSeq(s, 1, i - 1)>> \o SplitSlash(SubSeq(s, i + 1, Len(s)))

\* the segments of a path with '', '.' and '..' resolved
RECURSIVE Segments(_, _, _)
Segments(parts, acc, isAbs) ==
    IF parts = <<>> THEN acc
    ELSE LET h == Head(parts)
         IN  IF h = <<>> \/ h = <<".">> THEN Segments(Tail(parts), acc, isAbs)
             ELSE IF h = <<".", ".">>
             THEN IF acc # <<>> /\ acc[Len(acc)] # <<".", ".">>
                  THEN Segments(Tail(parts), SubSeq(acc, 1, Len(acc) - 1), isAbs)
                  ELSE IF isAbs THEN Segments(Tail(parts), acc, isAbs)
                  ELSE Segments(Tail(parts), Append(acc, h), isAbs)
             ELSE Segments(Tail(parts), Append(acc, h), isAbs)

\* path.normalize (trailing separators dropped)
Normalize(p) ==
    IF p = <<>> THEN <<".">>
    ELSE LET isAbs == p[1] = "/"
             segs  == Segments(SplitSlash(p), <<>>, isAbs)
         IN  IF isAbs THEN <<"/">> \o Join(segs, <<"/">>)
             ELSE IF segs = <<>> THEN <<".">>
             ELSE Join(segs, <<"/">>)

\* path.join: the non-empty arguments joined by '/', then normalized
PathJoin(parts) ==
    LET nonEmpty == SelectSeq(parts, LAMBDA x : x # <<>>)
    IN  Normalize(Join(nonEmpty, <<"/">>))

\* path.basename
Basename(p) ==
    LET parts == SelectSeq(SplitSlash(p), LAMBDA x : x # <<>>)
    IN  IF parts = <<>> THEN <<>> ELSE parts[Len(parts)]

\* path.dirname of an absolute normalized path
Dirname(p) ==
    LET parts == SelectSeq(SplitSlash(p), LAMBDA x : x # <<>>)
    IN  IF Len(parts) <= 1 THEN <<"/">>
        ELSE <<"/">> \o Join(SubSeq(parts, 1, Len(parts) - 1), <<"/">>)

\* the working directory of the extension host process, against which the
\* fs module resolves relative paths
Cwd == <<"/", "h">>

AbsPath(p) == IF p # <<>> /\ p[1] = "/" THEN p ELSE PathJoin(<<Cwd, p>>)

\* fs.existsSync
ExistsSync(f, p) == p # <<>> /\ AbsPath(p) \in DOMAIN f

IsFile(f, p) == ExistsSync(f, p) /\ f[AbsPath(p)].kind = "file"
IsDir(f, p)  == ExistsSync(f, p) /\ f[AbsPath(p)].kind = "dir"

\* fs.mkdirSync can succeed only where the parent is a directory and nothing
\* is there yet
CanMkdir(f, p) == ~ExistsSync(f, p) /\ IsDir(f, Dirname(AbsPath(p)))

\* fs.writeFileSync can succeed only where the parent is a directory and the
\* target is not one
CanWrite(f, p) == ~IsDir(f, p) /\ IsDir(f, Dirname(AbsPath(p)))

Mkdir(f, p) == (AbsPath(p) :> [kind |-> "dir", content |-> <<>>]) @@ f

\* a write that leaves a file that is already there as it is
WriteFileKeepsExisting(f, p, data) ==
    IF ExistsSync(f, p) THEN f ELSE (AbsPath(p) :> [kind |-> "file", content |-> data]) @@ f

\* fs.writeFileSync(p, data): creates the file or replaces its content
WriteFile(f, p, data) == (AbsPath(p) :> [kind |-> "file", content |-> data]) @@ f

\* ------------------------------------------------------------ the chat panel (webview script)

\* What the user types into #chat-input: a verb in some letter case (canon is
\* the same verb in lower case), argument tokens, and the whitespace around
\* and between them.  posts is the number of messages the user action posts.
Typed(verb, canon, args, lead, gap, trail) ==
    [verb |-> verb, canon |-> canon, args |-> args,
     lead |-> lead, gap |-> gap, trail |-> trail, posts |-> 1]

RECURSIVE Gapped(_, _)
Gapped(args, gap) ==
    IF args = <<>> THEN <<>> ELSE gap \o Head(args) \o Gapped(Tail(args), gap)

\* inputElement.value for a typed line
Render(t) == t.lead \o t.verb \o Gapped(t.args, t.gap) \o t.trail

\* the text showCurrentLogs() posts
ShowCurrentLogsText == <<"s", "h", "o", "w", "C", "u", "r", "r", "e", "n", "t", "L", "o", "g", "s">>

\* a click on the Show Logs button
LogsButton ==
    [verb |-> ShowCurrentLogsText, canon |-> <<"s", "h", "o", "w", "c", "u", "r", "r", "e", "n", "t", "l", "o", "g", "s">>, args |-> <<>>,
     lead |-> <<>>, gap |-> <<>>, trail |-> <<>>, posts |-> 2]

\* ------------------------------------------------------------ DevForgeChatProvider

\* the parts of a DisplayMessage text that vary: which template, and what
\* is interpolated into it
Msg(i, src, kind, a, b) == [inv |-> i, src |-> src, kind |-> kind, a |-> a, b |-> b]

\* a guard the wrong way round
PostMessageToWebviewUnlessView(v, ms, m) == IF v THEN ms ELSE Append(ms, m)

\* postMessageToWebview: delivered only while a view is set
PostMessageToWebview(v, ms, m) == IF v THEN Append(ms, m) ELSE ms

Invocation(cmd, arg, src) ==
    [cmd |-> cmd, arg |-> arg, src |-> src, pc |-> "start",
     target |-> <<>>, testFile |-> <<>>, files |-> <<>>, sent |-> <<>>,
     resp |-> <<>>, exec |-> <<>>, persist |-> "none", failedRead |-> 0,
     nRead |-> 0, nRemote |-> 0, nMkdir |-> 0, nWrite |-> 0, nExec |-> 0,
     unhandled |-> FALSE]

\* a router that compares the first token as typed
ParseCommandCaseSensitive(text) == SplitWs(Trim(text))[1]

\* a router that compares the whole line, not its first token
ParseCommandWholeLine(text) == ToLowerCase(Trim(text))

\* parts[0].toLowerCase()
ParseCommand(text) == ToLowerCase(SplitWs(Trim(text))[1])

ParseArgument(text) == Join(Tail(SplitWs(Trim(text))), <<" ">>)

ServerLog == <<"s", "e", "r", "v", "e", "r", ".", "l", "o", "g">>
DefaultEnv == <<"d", "e", "f", "a", "u", "l", "t">>

\* a switch whose /logs case passes the argument on without the default
RouteLogsNoDefault(text) ==
    LET command  == ParseCommand(text)
        argument == ParseArgument(text)
    IN  CASE command = <<"s", "h", "o", "w", "c", "u", "r", "r", "e", "n", "t", "l", "o", "g", "s">> ->
                [cmd |-> "devforge.runLogs", arg |-> ServerLog]
          [] command = <<"/", "f", "l", "o", "w">> ->
                [cmd |-> "devforge.runFlow", arg |-> <<>>]
          [] command = <<"/", "t", "e", "s", "t">> ->
                [cmd |-> "devforge.runTests", arg |-> argument]
          [] command = <<"/", "h", "e", "l", "p">> ->
                [cmd |-> "help", arg |-> <<>>]
          [] command \in {<<"/", "s", "u", "m", "m", "a", "r", "y">>, <<"/", "a", "n", "a", "l", "y", "z", "e">>} ->
                [cmd |-> "devforge.runSummary", arg |-> argument]
          [] command = <<"/", "l", "o", "g", "s">> ->
                [cmd |-> "devforge.runLogs",
                 arg |-> argument]
          [] command \in {<<"/", "e", "n", "v">>, <<"/", "e", "n", "v", "i", "r", "o", "n", "m", "e", "n", "t">>} ->
                [cmd |-> "devforge.runEnv",
                 arg |-> IF argument # <<>> THEN argument ELSE DefaultEnv]
          [] OTHER ->
                [cmd |-> "unrecognized", arg |-> command]


\* a switch whose default case reports the argument instead of the command
RouteEchoesArgument(text) ==
    LET command  == ParseCommand(text)
        argument == ParseArgument(text)
    IN  CASE command = <<"s", "h", "o", "w", "c", "u", "r", "r", "e", "n", "t", "l", "o", "g", "s">> ->
                [cmd |-> "devforge.runLogs", arg |-> ServerLog]
          [] command = <<"/", "f", "l", "o", "w">> ->
                [cmd |-> "devforge.runFlow", arg |-> <<>>]
          [] command = <<"/", "t", "e", "s", "t">> ->
                [cmd |-> "devforge.runTests", arg |-> argument]
          [] command = <<"/", "h", "e", "l", "p">> ->
                [cmd |-> "help", arg |-> <<>>]
          [] command \in {<<"/", "s", "u", "m", "m", "a", "r", "y">>, <<"/", "a", "n", "a", "l", "y", "z", "e">>} ->
                [cmd |-> "devforge.runSummary", arg |-> argument]
          [] command = <<"/", "l", "o", "g", "s">> ->
                [cmd |-> "devforge.runLogs",
                 arg |-> IF argument # <<>> THEN argument ELSE ServerLog]
          [] command \in {<<"/", "e", "n", "v">>, <<"/", "e", "n", "v", "i", "r", "o", "n", "m", "e", "n", "t">>} ->
                [cmd |-> "devforge.runEnv",
                 arg |-> IF argument # <<>> THEN argument ELSE DefaultEnv]
          [] OTHER ->
                [cmd |-> "unrecognized", arg |-> argument]


\* the switch of handleUserCommand: the command to execute and its argument,
\* or the message to post
Route(text) ==
    LET command  == ParseCommand(text)
        argument == ParseArgument(text)
    IN  CASE command = <<"s", "h", "o", "w", "c", "u", "r", "r", "e", "n", "t", "l", "o", "g", "s">> ->
                [cmd |-> "devforge.runLogs", arg |-> ServerLog]
          [] command = <<"/", "f", "l", "o", "w">> ->
                [cmd |-> "devforge.runFlow", arg |-> <<>>]
          [] command = <<"/", "t", "e", "s", "t">> ->
                [cmd |-> "devforge.runTests", arg |-> argument]
          [] command = <<"/", "h", "e", "l", "p">> ->
                [cmd |-> "help", arg |-> <<>>]
          [] command \in {<<"/", "s", "u", "m", "m", "a", "r", "y">>, <<"/", "a", "n", "a", "l", "y", "z", "e">>} ->
                [cmd |-> "devforge.runSummary", arg |-> argument]
          [] command = <<"/", "l", "o", "g", "s">> ->
                [cmd |-> "devforge.runLogs",
                 arg |-> IF argument # <<>> THEN argument ELSE ServerLog]
          [] command \in {<<"/", "e", "n", "v">>, <<"/", "e", "n", "v", "i", "r", "o", "n", "m", "e", "n", "t">>} ->
                [cmd |-> "devforge.runEnv",
                 arg |-> IF argument # <<>> THEN argument ELSE DefaultEnv]
          [] OTHER ->
                [cmd |-> "unrecognized", arg |-> command]


\* ------------------------------------------------------------ the environment

RootW   == <<"/", "w">>
RootE   == <<"/", "e">>
FileA   == <<"/", "w", "/", "a", ".", "j", "s">>
TestsDirName == <<"t", "e", "s", "t", "s">>

Dir == [kind |-> "dir", content |-> <<>>]
File(data) == [kind |-> "file", content |-> data]

\* the file system: a project folder /w with files the flow patterns match
\* (and one under node_modules), and a project folder /e with none
InitialFs ==
    (<<"/">> :> Dir) @@ (Cwd :> Dir)
        @@ (RootW :> Dir) @@ (FileA :> File(<<"A">>))
        @@ (<<"/", "w", "/", "i", "n", "d", "e", "x", ".", "j", "s">> :> File(<<"I">>))
        @@ (<<"/", "w", "/", "s", "r", "c">> :> Dir)
        @@ (<<"/", "w", "/", "s", "r", "c", "/", "b", ".", "t", "s">> :> File(<<"B">>))
        @@ (<<"/", "w", "/", "n", "o", "d", "e", "_", "m", "o", "d", "u", "l", "e", "s">> :> Dir)
        @@ (<<"/", "w", "/", "n", "o", "d", "e", "_", "m", "o", "d", "u", "l", "e", "s", "/", "i", "n", "d", "e", "x", ".", "j", "s">> :> File(<<"N">>))
        @@ (RootE :> Dir)
        @@ (<<"/", "e", "/", "a", ".", "j", "s">> :> File(<<"A">>))

\* file content that closes the fence, reads like the header of a file z and
\* opens a fence again
HeaderLikeText ==
    <<"A", "\n", "backquote", "backquote", "backquote", "\n", "\n">> \o <<"#", "#", "#", " ", "F", "I", "L", "E", ":", " ", "z", " ", "#", "#", "#">>
        \o <<"\n", "\n", "backquote", "backquote", "backquote", "\n", "B">>

\* a project folder /b with more matching files than MAX_CONTEXT_FILES: one
\* for each kind of pattern in FLOW_FILE_PATTERNS, and two files no pattern
\* takes; src/a.js holds a line that reads like an entry header
RootB == <<"/", "b">>

BigFs ==
    InitialFs
        @@ (RootB :> Dir)
        @@ (<<"/", "b", "/", "p", "a", "c", "k", "a", "g", "e", ".", "j", "s", "o", "n">> :> File(<<"P">>))
        @@ (<<"/", "b", "/", "x", ".", "h", "t", "m", "l">> :> File(<<"H">>))
        @@ (<<"/", "b", "/", "i", "n", "d", "e", "x", ".", "j", "s">> :> File(<<"I">>))
        @@ (<<"/", "b", "/", "i", "n", "d", "e", "x", ".", "t", "s">> :> File(<<"J">>))
        @@ (<<"/", "b", "/", "s", "e", "r", "v", "e", "r", ".", "j", "s">> :> File(<<"S">>))
        @@ (<<"/", "b", "/", "r", "e", "a", "d", "m", "e", ".", "m", "d">> :> File(<<"R">>))
        @@ (<<"/", "b", "/", "s", "r", "c">> :> Dir)
        @@ (<<"/", "b", "/", "s", "r", "c", "/", "a", ".", "j", "s">> :> File(HeaderLikeText))
        @@ (<<"/", "b", "/", "s", "r", "c", "/", "b", ".", "t", "s">> :> File(<<"B">>))
        @@ (<<"/", "b", "/", "s", "r", "c", "/", "c", ".", "j", "s", "x">> :> File(<<"C">>))
        @@ (<<"/", "b", "/", "s", "r", "c", "/", "d", ".", "t", "s", "x">> :> File(<<"D">>))
        @@ (<<"/", "b", "/", "n", "o", "d", "e", "_", "m", "o", "d", "u", "l", "e", "s">> :> Dir)
        @@ (<<"/", "b", "/", "n", "o", "d", "e", "_", "m", "o", "d", "u", "l", "e", "s", "/", "s", "e", "r", "v", "e", "r", ".", "j", "s">> :> File(<<"N">>))

\* what the remote endpoint can answer: a network/HTTP failure, a body
\* without summary, or a summary text
Response(ok, has, summary) == [ok |-> ok, has |-> has, summary |-> summary]

Summaries == {<<>>, <<"o", "k">>, <<"x", " ", "f", "a", "i", "l", "e", "d">>}

Responses ==
    {Response(FALSE, FALSE, <<>>), Response(TRUE, FALSE, <<>>)}
        \cup {Response(TRUE, TRUE, s) : s \in Summaries}

\* what a child process can report to the exec callback: whether it failed
\* (exit code, signal, spawn error), and what it wrote to stdout and stderr
ExecResults ==
    [error : BOOLEAN, stdout : {<<>>, <<"P", "A", "S", "S">>}, stderr : {<<>>}]
        \cup {[error |-> FALSE, stdout |-> <<>>, stderr |-> <<"E">>],
              [error |-> TRUE, stdout |-> <<>>, stderr |-> <<"E">>],
              [error |-> FALSE, stdout |-> <<"1", " ">>, stderr |-> <<"P", "a", "s", "s">>]}

\* the message of the error exec passes to its callback: a fixed prefix
\* followed by what the process wrote to stderr
ErrorMessage == <<"C", "o", "m", "m", "a", "n", "d", " ", "f", "a", "i", "l", "e", "d">>

ExecErrorMessage(res) == ErrorMessage \o res.stderr

\* ------------------------------------------------------------ command lines

ArgA     == <<"a", ".", "j", "s">>

Plain(verb, args) == Typed(verb, verb, args, <<>>, <<" ">>, <<>>)

\* the lines typed in the main specification
TypedLines ==
    { Plain(<<"/", "f", "l", "o", "w">>, <<>>),
      Plain(<<"/", "s", "u", "m", "m", "a", "r", "y">>, <<ArgA>>),
      Plain(<<"/", "s", "u", "m", "m", "a", "r", "y">>, <<>>),
      Plain(<<"/", "t", "e", "s", "t">>, <<ArgA>>),
      Plain(<<"/", "t", "e", "s", "t">>, <<>>),
      Plain(<<"/", "l", "o", "g", "s">>, <<<<"a", "p", "p", ".", "l", "o", "g">>>>),
      Plain(<<"/", "e", "n", "v">>, <<>>),
      Plain(<<"/", "h", "e", "l", "p">>, <<>>),
      Typed(<<"/", "B", "o", "g", "u", "s">>, <<"/", "b", "o", "g", "u", "s">>, <<>>, <<>>, <<" ">>, <<>>) }

\* ------------------------------------------------------------ command helpers

MAX_CONTEXT_FILES == 8

EndsWith(s, suf) == Len(suf) <= Len(s) /\ StartsWithAt(s, Len(s) - Len(suf) + 1, suf)

\* the alternatives of /(\.js|\.ts|\.jsx|\.tsx)/, in the order they are tried
ExtAlternatives == <<<<".", "j", "s">>, <<".", "t", "s">>, <<".", "j", "s", "x">>, <<".", "t", "s", "x">>>>

\* the text the regular expression matches at position i, or <<>>
ExtMatchAt(s, i) ==
    LET ks == {k \in 1..Len(ExtAlternatives) : StartsWithAt(s, i, ExtAlternatives[k])}
    IN  IF ks = {} THEN <<>>
        ELSE ExtAlternatives[CHOOSE k \in ks : \A m \in ks : k <= m]

\* base.replace(/(\.js|\.ts|\.jsx|\.tsx)/, '.test$&'): the leftmost match only
TestFilename(base) ==
    LET at == {i \in 1..Len(base) : ExtMatchAt(base, i) # <<>>}
    IN  IF at = {} THEN base
        ELSE LET i == CHOOSE k \in at : \A j \in at : k <= j
                 m == ExtMatchAt(base, i)
             IN  SubSeq(base, 1, i - 1) \o <<".", "t", "e", "s", "t">> \o m
                     \o SubSeq(base, i + Len(m), Len(base))

\* runSummary's path resolution
SummaryTargetPath(r, e, filePath) ==
    IF filePath # <<>>
    THEN IF r # <<>> THEN PathJoin(<<r, filePath>>) ELSE <<>>
    ELSE e

\* runTests' path resolution
TestsTargetPath(r, e, filePath) ==
    PathJoin(<<r, IF filePath # <<>> THEN filePath ELSE e>>)

\* a check that rejects only an absent or empty text
GenerationFailedWhenEmpty(resp) ==
    \/ ~resp.has
    \/ resp.summary = <<>>

\* !generatedTest || generatedTest.includes('failed')
GenerationFailed(resp) ==
    \/ ~resp.has
    \/ resp.summary = <<>>
    \/ Includes(resp.summary, <<"f", "a", "i", "l", "e", "d">>)

\* a fallback that replaces only an absent summary, not an empty one
SummaryOrWhenAbsent(resp, fallback) ==
    IF resp.has THEN resp.summary ELSE fallback

\* response.data.summary || fallback
SummaryOr(resp, fallback) ==
    IF resp.has /\ resp.summary # <<>> THEN resp.summary ELSE fallback

SummaryFallback == <<"A", "n", "a", "l", "y", "s", "i", "s", " ", "f", "a", "i", "l", "e", "d", ":", " ", "A", "g", "e", "n", "t", " ", "r", "e", "t", "u", "r", "n", "e", "d", " ", "n", "o", " ", "s", "p", "e", "c", "i", "f", "i", "c", " ", "s", "u", "m", "m", "a", "r", "y", " ", "t", "e", "x", "t", ".">>
FlowFallback    == <<"F", "l", "o", "w", " ", "a", "n", "a", "l", "y", "s", "i", "s", " ", "f", "a", "i", "l", "e", "d", ".", " ", "C", "h", "e", "c", "k", " ", "N", "8", "N", " ", "w", "o", "r", "k", "f", "l", "o", "w", " ", "f", "o", "r", " ", "r", "e", "s", "p", "o", "n", "s", "e", ".">>
NoActiveFile    == <<"N", "o", " ", "a", "c", "t", "i", "v", "e", " ", "f", "i", "l", "e">>

Under(r, p) == Len(p) > Len(r) + 1 /\ SubSeq(p, 1, Len(r) + 1) = r \o <<"/">>

\* path.relative(root, p) for a path below root
Relative(r, p) == SubSeq(p, Len(r) + 2, Len(p))

SourceExts == {<<".", "j", "s">>, <<".", "t", "s">>, <<".", "j", "s", "x">>, <<".", "t", "s", "x">>}

EntryNames == {<<"i", "n", "d", "e", "x", ".", "j", "s">>, <<"i", "n", "d", "e", "x", ".", "t", "s">>, <<"i", "n", "d", "e", "x", ".", "j", "s", "x">>, <<"i", "n", "d", "e", "x", ".", "t", "s", "x">>,
               <<"s", "e", "r", "v", "e", "r", ".", "j", "s">>, <<"s", "e", "r", "v", "e", "r", ".", "t", "s">>}

\* patterns that take source files anywhere, not only under src
FlowMatchesAnySource(rel) ==
    LET segs == SplitSlash(rel)
        base == segs[Len(segs)]
        dirs == SubSeq(segs, 1, Len(segs) - 1)
    IN  /\ ~\E k \in 1..Len(dirs) : dirs[k] = <<"n", "o", "d", "e", "_", "m", "o", "d", "u", "l", "e", "s">>
        /\ \/ base = <<"p", "a", "c", "k", "a", "g", "e", ".", "j", "s", "o", "n">>
           \/ EndsWith(base, <<".", "h", "t", "m", "l">>)
           \/ \E x \in SourceExts : EndsWith(base, x)

\* FLOW_FILE_PATTERNS, with '**/node_modules/**' excluded
FlowMatches(rel) ==
    LET segs == SplitSlash(rel)
        base == segs[Len(segs)]
        dirs == SubSeq(segs, 1, Len(segs) - 1)
    IN  /\ ~\E k \in 1..Len(dirs) : dirs[k] = <<"n", "o", "d", "e", "_", "m", "o", "d", "u", "l", "e", "s">>
        /\ \/ base = <<"p", "a", "c", "k", "a", "g", "e", ".", "j", "s", "o", "n">>
           \/ EndsWith(base, <<".", "h", "t", "m", "l">>)
           \/ base \in EntryNames
           \/ /\ \E k \in 1..Len(dirs) : dirs[k] = <<"s", "r", "c">>
              /\ \E x \in SourceExts : EndsWith(base, x)

MatchingFiles(f, r) ==
    {p \in DOMAIN f : f[p].kind = "file" /\ Under(r, p) /\ FlowMatches(Relative(r, p))}

\* the order of characters in path names
Alphabet == <<".", "/", "_", "0", "1", "2", "3", "4", "5", "6", "7", "8", "9", "a", "b", "c", "d", "e", "f", "g", "h", "i", "j", "k", "l", "m", "n", "o", "p", "q", "r", "s", "t", "u", "v", "w", "x", "y", "z">>

CharRank(c) == CHOOSE k \in 1..Len(Alphabet) : Alphabet[k] = c

PathLess(p, q) ==
    \E k \in 1..Len(q) :
        /\ k <= Len(p) + 1
        /\ SubSeq(p, 1, k - 1) = SubSeq(q, 1, k - 1)
        /\ \/ k = Len(p) + 1
           \/ CharRank(p[k]) < CharRank(q[k])

RECURSIVE SortedPaths(_)
SortedPaths(M) ==
    IF M = {} THEN <<>>
    ELSE LET least == CHOOSE p \in M : \A q \in M \ {p} : PathLess(p, q)
         IN  <<least>> \o SortedPaths(M \ {least})

Reverse(s) == [k \in 1..Len(s) |-> s[Len(s) + 1 - k]]

\* vscode.workspace.findFiles(glob, exclude, maxResults): at most maxResults
\* of the matching files, in an order the host chooses. Up to MaxPermuted
\* matches come in every order; more come as the host's walk finds them, in
\* ascending or in descending path order, the walk stopping at maxResults
FindFiles(f, r, maxResults) ==
    LET M == MatchingFiles(f, r)
        n == IF Cardinality(M) < maxResults THEN Cardinality(M) ELSE maxResults
    IN  IF Cardinality(M) <= MaxPermuted
        THEN {s \in [1..n -> M] : \A i, j \in 1..n : s[i] = s[j] => i = j}
        ELSE {SubSeq(SortedPaths(M), 1, n), SubSeq(Reverse(SortedPaths(M)), 1, n)}


\* ------------------------------------------------------------ initial state

Init ==
    /\ view = FALSE
    /\ root \in {<<>>, RootW, RootE}
    /\ editor \in {<<>>, FileA}
    /\ fs = InitialFs
    /\ cmds = <<>>
    /\ pending = <<>>
    /\ inv = <<>>
    /\ msgs = <<>>

\* ------------------------------------------------------------ view and webview script

\* resolveWebviewView: the view is set and its script starts
ResolveWebviewView ==
    /\ view' = TRUE
    /\ UNCHANGED <<root, editor, fs, cmds, pending, inv, msgs>>

\* postMessageToExtension (Send button, Enter key): the trimmed input is
\* posted unless it is empty
PostMessageToExtension(typed, cap) ==
    /\ view
    /\ Len(cmds) < cap
    /\ Trim(Render(typed)) # <<>>
    /\ cmds' = Append(cmds, typed)
    /\ pending' = Append(pending, [text |-> Trim(Render(typed)), src |-> Len(cmds) + 1])
    /\ UNCHANGED <<view, root, editor, fs, inv, msgs>>

\* a click on Show Logs: showCurrentLogs runs once for the button's onclick
\* attribute and once for the listener added by the script
ClickShowLogs(cap) ==
    /\ view
    /\ Len(cmds) < cap
    /\ cmds' = Append(cmds, LogsButton)
    /\ pending' = pending \o <<[text |-> ShowCurrentLogsText, src |-> Len(cmds) + 1],
                              [text |-> ShowCurrentLogsText, src |-> Len(cmds) + 1]>>
    /\ UNCHANGED <<view, root, editor, fs, inv, msgs>>

\* onDidReceiveMessage -> handleUserCommand(data.text)
HandleUserCommand ==
    /\ pending # <<>>
    /\ LET m == Head(pending)
           r == Route(m.text)
       IN  /\ pending' = Tail(pending)
           /\ IF r.cmd = "help"
              THEN /\ msgs' = PostMessageToWebview(view, msgs,
                                  Msg(0, m.src, "help", <<>>, <<>>))
                   /\ inv' = inv
              ELSE IF r.cmd = "unrecognized"
              THEN /\ msgs' = PostMessageToWebview(view, msgs,
                                  Msg(0, m.src, "unrecognized", r.arg, <<>>))
                   /\ inv' = inv
              ELSE /\ inv' = Append(inv, Invocation(r.cmd, r.arg, m.src))
                   /\ msgs' = msgs
    /\ UNCHANGED <<view, root, editor, fs, cmds>>

\* ------------------------------------------------------------ command handlers
\* Each handler is cut at its awaits and callbacks.  Only what goes through
\* postMessageToWebview is a chat message; showInformationMessage
\* notifications are not modelled.

Starting(i, cmd) == i \in 1..Len(inv) /\ inv[i].cmd = cmd /\ inv[i].pc = "start"
Awaiting(i, cmd, pc) == i \in 1..Len(inv) /\ inv[i].cmd = cmd /\ inv[i].pc = pc

Say(ms, i, kind, a, b) == PostMessageToWebview(view, ms, Msg(i, inv[i].src, kind, a, b))

\* devforge.runEnv
RunEnv(i) ==
    /\ Starting(i, "devforge.runEnv")
    /\ msgs' = Say(msgs, i, "envTriggered", inv[i].arg, <<>>)
    /\ inv' = [inv EXCEPT ![i].pc = "done",
                          ![i].sent = [terminal |-> inv[i].arg]]
    /\ UNCHANGED <<view, root, editor, fs, cmds, pending>>

\* devforge.runSummary, up to the await of axios.post
RunSummary(i) ==
    /\ Starting(i, "devforge.runSummary")
    /\ LET filePath   == inv[i].arg
           targetPath == SummaryTargetPath(root, editor, filePath)
       IN  IF targetPath = <<>> \/ ~ExistsSync(fs, targetPath)
           THEN /\ msgs' = Say(msgs, i, "summaryNotFound",
                               IF filePath # <<>> THEN filePath ELSE NoActiveFile, <<>>)
                /\ inv' = [inv EXCEPT ![i].pc = "done"]
           ELSE \E readOk \in BOOLEAN :
                  IF readOk /\ IsFile(fs, targetPath)
                  THEN /\ inv' = [inv EXCEPT ![i].pc = "awaitResponse",
                                             ![i].target = targetPath,
                                             ![i].nRead = 1,
                                             ![i].nRemote = 1,
                                             ![i].sent = [task |-> "summarize",
                                                 filename |-> Basename(targetPath),
                                                 content |-> fs[AbsPath(targetPath)].content]]
                       /\ msgs' = msgs
                  ELSE /\ msgs' = Say(msgs, i, "agentFailed", <<>>, <<>>)
                       /\ inv' = [inv EXCEPT ![i].pc = "done",
                                             ![i].target = targetPath,
                                             ![i].nRead = 1]
    /\ UNCHANGED <<view, root, editor, fs, cmds, pending>>

\* a handler that sends the request again when the call fails
RunSummaryResponseRetry(i) ==
    /\ Awaiting(i, "devforge.runSummary", "awaitResponse")
    /\ \E resp \in Responses :
          /\ msgs' = IF resp.ok
                  THEN Say(msgs, i, "summaryResult", Basename(inv[i].target),
                           SummaryOr(resp, SummaryFallback))
                  ELSE IF inv[i].nRemote < 2 THEN msgs
                  ELSE Say(msgs, i, "agentFailed", <<>>, <<>>)
          /\ inv' = IF ~resp.ok /\ inv[i].nRemote < 2
                    THEN [inv EXCEPT ![i].nRemote = @ + 1]
                    ELSE [inv EXCEPT ![i].pc = "done", ![i].resp = <<resp>>]
    /\ UNCHANGED <<view, root, editor, fs, cmds, pending>>

\* devforge.runSummary, after the await: the result message, or the catch block
RunSummaryResponse(i) ==
    /\ Awaiting(i, "devforge.runSummary", "awaitResponse")
    /\ \E resp \in Responses :
          /\ msgs' = IF resp.ok
                  THEN Say(msgs, i, "summaryResult", Basename(inv[i].target),
                           SummaryOr(resp, SummaryFallback))
                  ELSE Say(msgs, i, "agentFailed", <<>>, <<>>)
          /\ inv' = [inv EXCEPT ![i].pc = "done", ![i].resp = <<resp>>]
    /\ UNCHANGED <<view, root, editor, fs, cmds, pending>>


\* devforge.runTests, up to the await of axios.post; a throw of readFileSync
\* here is outside any try block and rejects the handler's promise
RunTests(i) ==
    /\ Starting(i, "devforge.runTests")
    /\ LET filePath   == inv[i].arg
           targetPath == TestsTargetPath(root, editor, filePath)
       IN  IF targetPath = <<>> \/ ~ExistsSync(fs, targetPath)
           THEN /\ msgs' = Say(msgs, i, "testNotFound",
                               IF filePath # <<>> THEN filePath ELSE NoActiveFile, <<>>)
                /\ inv' = [inv EXCEPT ![i].pc = "done"]
           ELSE \E readOk \in BOOLEAN :
                  /\ msgs' = msgs
                  /\ IF readOk /\ IsFile(fs, targetPath)
                     THEN inv' = [inv EXCEPT ![i].pc = "awaitResponse",
                                             ![i].target = targetPath,
                                             ![i].nRead = 1,
                                             ![i].nRemote = 1,
                                             ![i].sent = [task |-> "generate_test",
                                                 filename |-> Basename(targetPath),
                                                 content |-> fs[AbsPath(targetPath)].content]]
                     ELSE inv' = [inv EXCEPT ![i].pc = "done",
                                             ![i].target = targetPath,
                                             ![i].nRead = 1,
                                             ![i].unhandled = TRUE]
    /\ UNCHANGED <<view, root, editor, fs, cmds, pending>>

\* a catch block that reports the failure and falls through
PersistOutcomeNoReturn(wrote) == "awaitExec"

\* where the handler is after the try/catch around the save: the catch block
\* returns, a save that did not throw goes on to 'npm test'
PersistOutcome(wrote) == IF wrote THEN "awaitExec" ELSE "done"

\* devforge.runTests, from the response to the start of 'npm test'; a rejected
\* axios.post is outside any try block too
RunTestsResponseWith(i, responses) ==
    /\ Awaiting(i, "devforge.runTests", "awaitResponse")
    /\ \E resp \in responses, mkdirOk \in BOOLEAN, writeOk \in BOOLEAN :
          LET testFilename == TestFilename(Basename(inv[i].target))
              testsDir     == PathJoin(<<root, TestsDirName>>)
              testFilePath == PathJoin(<<root, TestsDirName, testFilename>>)
              needMkdir    == root # <<>> /\ ~ExistsSync(fs, testsDir)
              madeDir      == needMkdir /\ mkdirOk /\ CanMkdir(fs, testsDir)
              fs1          == IF madeDir THEN Mkdir(fs, testsDir) ELSE fs
              wrote        == (needMkdir => madeDir) /\ writeOk /\ CanWrite(fs1, testFilePath)
              next         == PersistOutcome(wrote)
              caught       == IF wrote THEN msgs ELSE Say(msgs, i, "saveFailed", <<>>, <<>>)
          IN  IF ~resp.ok
              THEN /\ inv' = [inv EXCEPT ![i].pc = "done", ![i].resp = <<resp>>,
                                         ![i].unhandled = TRUE]
                   /\ UNCHANGED <<fs, msgs>>
              ELSE IF GenerationFailed(resp)
              THEN /\ msgs' = Say(msgs, i, "generationFailed",
                                  IF resp.has THEN resp.summary ELSE <<"u", "n", "d", "e", "f", "i", "n", "e", "d">>, <<>>)
                   /\ inv' = [inv EXCEPT ![i].pc = "done", ![i].resp = <<resp>>]
                   /\ fs' = fs
              ELSE /\ fs' = IF wrote THEN WriteFile(fs1, testFilePath, resp.summary) ELSE fs1
                   /\ msgs' = IF next = "awaitExec"
                              THEN Say(caught, i, "testSaved", testFilename, <<>>)
                              ELSE caught
                   /\ inv' = [inv EXCEPT ![i].pc = next,
                                         ![i].resp = <<resp>>,
                                         ![i].testFile = testFilePath,
                                         ![i].persist = IF wrote THEN "ok"
                                                        ELSE IF needMkdir /\ ~madeDir THEN "mkdirFailed"
                                                        ELSE "writeFailed",
                                         ![i].nMkdir = IF needMkdir THEN 1 ELSE 0,
                                         ![i].nWrite = IF needMkdir => madeDir THEN 1 ELSE 0,
                                         ![i].nExec = IF next = "awaitExec" THEN 1 ELSE 0]
    /\ UNCHANGED <<view, root, editor, cmds, pending>>

\* a check that looks for 'pass' in the output as written
IsSuccessCaseSensitive(res) ==
    Includes(res.stdout \o res.stderr, <<"p", "a", "s", "s">>) /\ ~res.error

RunTestsResponse(i) == RunTestsResponseWith(i, Responses)

\* resultOutput.toLowerCase().includes('pass') && !error
IsSuccess(res) ==
    Includes(ToLowerCase(res.stdout \o res.stderr), <<"p", "a", "s", "s">>) /\ ~res.error

\* devforge.runTests: the callback of exec('npm test')
RunTestsExecCallback(i) ==
    /\ Awaiting(i, "devforge.runTests", "awaitExec")
    /\ \E res \in ExecResults :
          /\ msgs' = Say(msgs, i, "testResult", IsSuccess(res), res.stdout \o res.stderr)
          /\ inv' = [inv EXCEPT ![i].pc = "done", ![i].exec = <<res>>]
    /\ UNCHANGED <<view, root, editor, fs, cmds, pending>>

\* devforge.runFlow, up to the await of findFiles
RunFlow(i) ==
    /\ Starting(i, "devforge.runFlow")
    /\ IF root = <<>>
       THEN /\ msgs' = Say(msgs, i, "flowNoRoot", <<>>, <<>>)
            /\ inv' = [inv EXCEPT ![i].pc = "done"]
       ELSE /\ inv' = [inv EXCEPT ![i].pc = "awaitFiles"]
            /\ msgs' = msgs
    /\ UNCHANGED <<view, root, editor, fs, cmds, pending>>

\* the backquote character, which a TLA+ string cannot hold
Backquote == "backquote"

Fence == <<Backquote, Backquote, Backquote>>

\* the template literal appended per file: two newlines, '### FILE: ', the
\* relative path, ' ###', two newlines, a fence, a newline, the content, a
\* newline, a fence
FileEntry(relativePath, content) ==
    <<"\n", "\n">> \o <<"#", "#", "#", " ", "F", "I", "L", "E", ":", " ">> \o relativePath \o <<" ", "#", "#", "#">> \o <<"\n", "\n">>
        \o Fence \o <<"\n">> \o content \o <<"\n">> \o Fence

\* the context string: the entries of the files read, in order, one after
\* the other
RECURSIVE ContextString(_, _, _)
ContextString(f, r, uris) ==
    IF uris = <<>> THEN <<>>
    ELSE FileEntry(Relative(r, Head(uris)), f[Head(uris)].content)
             \o ContextString(f, r, Tail(uris))

\* a loop that skips a file it cannot read and goes on
ReadAllSkipping(n, readable) == [sends |-> TRUE, reads |-> n]

\* the loop of readFileSync calls inside the try block, for n files of which
\* the first `readable` can be read: the first throw ends the loop in the
\* catch block, and the request is sent only if no read threw
ReadAll(n, readable) ==
    [sends |-> readable = n, reads |-> IF readable < n THEN readable + 1 ELSE n]

\* devforge.runFlow, from the files found to the await of axios.post
RunFlowFiles(i) ==
    /\ Awaiting(i, "devforge.runFlow", "awaitFiles")
    /\ \E fileUris \in FindFiles(fs, root, MAX_CONTEXT_FILES) :
         \E readable \in 0..Len(fileUris) :
           LET loop   == ReadAll(Len(fileUris), readable)
               failed == IF readable < Len(fileUris) THEN readable + 1 ELSE 0
           IN  IF Len(fileUris) = 0
               THEN /\ msgs' = Say(msgs, i, "flowNoFiles", <<>>, <<>>)
                    /\ inv' = [inv EXCEPT ![i].pc = "done"]
               ELSE IF ~loop.sends
               THEN /\ msgs' = Say(msgs, i, "flowFailed", <<>>, <<>>)
                    /\ inv' = [inv EXCEPT ![i].pc = "done",
                                          ![i].files = fileUris,
                                          ![i].failedRead = failed,
                                          ![i].nRead = loop.reads]
               ELSE /\ msgs' = msgs
                    /\ inv' = [inv EXCEPT ![i].pc = "awaitResponse",
                                          ![i].files = fileUris,
                                          ![i].failedRead = failed,
                                          ![i].nRead = loop.reads,
                                          ![i].nRemote = 1,
                                          ![i].sent = [task |-> "flow_analysis",
                                              project_context |-> ContextString(fs, root, fileUris),
                                              root_path |-> Basename(root)]]
    /\ UNCHANGED <<view, root, editor, fs, cmds, pending>>

\* devforge.runFlow, after the await: the result message, or the catch block
RunFlowResponse(i) ==
    /\ Awaiting(i, "devforge.runFlow", "awaitResponse")
    /\ \E resp \in Responses :
          /\ msgs' = IF resp.ok
                  THEN Say(msgs, i, "flowResult", Basename(root),
                           SummaryOr(resp, FlowFallback))
                  ELSE Say(msgs, i, "flowFailed", <<>>, <<>>)
          /\ inv' = [inv EXCEPT ![i].pc = "done", ![i].resp = <<resp>>]
    /\ UNCHANGED <<view, root, editor, fs, cmds, pending>>

\* devforge.runLogs, up to the start of 'tail -n 10'
RunLogs(i) ==
    /\ Starting(i, "devforge.runLogs")
    /\ IF root = <<>>
       THEN /\ msgs' = Say(msgs, i, "logsNoRoot", <<>>, <<>>)
            /\ inv' = [inv EXCEPT ![i].pc = "done"]
       ELSE /\ inv' = [inv EXCEPT ![i].pc = "awaitExec", ![i].nExec = 1]
            /\ msgs' = msgs
    /\ UNCHANGED <<view, root, editor, fs, cmds, pending>>

\* a callback that takes only an execution error for a failure
LogsFailedOnErrorOnly(res) == res.error

\* if (error || stderr)
LogsFailed(res) == res.error \/ res.stderr # <<>>

\* error?.message || stderr
LogsErrorText(res) == IF res.error THEN ExecErrorMessage(res) ELSE res.stderr

\* devforge.runLogs: the callback of exec('tail -n 10 ...')
RunLogsExecCallback(i) ==
    /\ Awaiting(i, "devforge.runLogs", "awaitExec")
    /\ \E res \in ExecResults :
          /\ msgs' = IF LogsFailed(res)
                     THEN Say(msgs, i, "logsFailed", inv[i].arg, LogsErrorText(res))
                     ELSE Say(msgs, i, "logsSnapshot", inv[i].arg, res.stdout)
          /\ inv' = [inv EXCEPT ![i].pc = "done", ![i].exec = <<res>>]
    /\ UNCHANGED <<view, root, editor, fs, cmds, pending>>

\* ------------------------------------------------------------ specifications

Next ==
    \/ ResolveWebviewView
    \/ \E typed \in TypedLines : PostMessageToExtension(typed, MaxSubmits)
    \/ ClickShowLogs(MaxSubmits)
    \/ HandleUserCommand
    \/ \E i \in 1..Len(inv) : RunEnv(i)
    \/ \E i \in 1..Len(inv) : RunSummary(i)
    \/ \E i \in 1..Len(inv) : RunSummaryResponse(i)
    \/ \E i \in 1..Len(inv) : RunTests(i)
    \/ \E i \in 1..Len(inv) : RunTestsResponse(i)
    \/ \E i \in 1..Len(inv) : RunTestsExecCallback(i)
    \/ \E i \in 1..Len(inv) : RunFlow(i)
    \/ \E i \in 1..Len(inv) : RunFlowFiles(i)
    \/ \E i \in 1..Len(inv) : RunFlowResponse(i)
    \/ \E i \in 1..Len(inv) : RunLogs(i)
    \/ \E i \in 1..Len(inv) : RunLogsExecCallback(i)

Spec == Init /\ [][Next]_vars


\* ------------------------------------------------------------ router specification
\* The router alone, over command lines in many spellings: verbs in lower,
\* upper and mixed case, with and without arguments, and with extra
\* whitespace around and between the tokens.

RouterVerbs ==
    { <<<<"/", "f", "l", "o", "w">>, <<"/", "f", "l", "o", "w">>>>,           <<<<"/", "F", "L", "O", "W">>, <<"/", "f", "l", "o", "w">>>>,
      <<<<"/", "s", "u", "m", "m", "a", "r", "y">>, <<"/", "s", "u", "m", "m", "a", "r", "y">>>>,     <<<<"/", "S", "u", "m", "m", "a", "r", "y">>, <<"/", "s", "u", "m", "m", "a", "r", "y">>>>,
      <<<<"/", "a", "n", "a", "l", "y", "z", "e">>, <<"/", "a", "n", "a", "l", "y", "z", "e">>>>,     <<<<"/", "A", "N", "A", "L", "Y", "Z", "E">>, <<"/", "a", "n", "a", "l", "y", "z", "e">>>>,
      <<<<"/", "t", "e", "s", "t">>, <<"/", "t", "e", "s", "t">>>>,           <<<<"/", "T", "e", "s", "t">>, <<"/", "t", "e", "s", "t">>>>,
      <<<<"/", "l", "o", "g", "s">>, <<"/", "l", "o", "g", "s">>>>,           <<<<"/", "L", "O", "G", "S">>, <<"/", "l", "o", "g", "s">>>>,
      <<<<"/", "e", "n", "v">>, <<"/", "e", "n", "v">>>>,             <<<<"/", "E", "n", "v">>, <<"/", "e", "n", "v">>>>,
      <<<<"/", "e", "n", "v", "i", "r", "o", "n", "m", "e", "n", "t">>, <<"/", "e", "n", "v", "i", "r", "o", "n", "m", "e", "n", "t">>>>,
      <<<<"/", "E", "N", "V", "I", "R", "O", "N", "M", "E", "N", "T">>, <<"/", "e", "n", "v", "i", "r", "o", "n", "m", "e", "n", "t">>>>,
      <<<<"/", "h", "e", "l", "p">>, <<"/", "h", "e", "l", "p">>>>,           <<<<"/", "H", "E", "L", "P">>, <<"/", "h", "e", "l", "p">>>>,
      <<<<"s", "h", "o", "w", "c", "u", "r", "r", "e", "n", "t", "l", "o", "g", "s">>, <<"s", "h", "o", "w", "c", "u", "r", "r", "e", "n", "t", "l", "o", "g", "s">>>>,
      <<<<"s", "h", "o", "w", "C", "u", "r", "r", "e", "n", "t", "L", "o", "g", "s">>, <<"s", "h", "o", "w", "c", "u", "r", "r", "e", "n", "t", "l", "o", "g", "s">>>>,
      <<<<"/", "b", "o", "g", "u", "s">>, <<"/", "b", "o", "g", "u", "s">>>>,         <<<<"/", "B", "o", "g", "u", "s">>, <<"/", "b", "o", "g", "u", "s">>>>,
      <<<<"f", "l", "o", "w">>, <<"f", "l", "o", "w">>>>,             <<<<"/", "F", "l", "o", "w", "s">>, <<"/", "f", "l", "o", "w", "s">>>> }

RouterArgs == { <<>>, <<ArgA>>, <<<<"M", "y">>, <<"F", ".", "J", "S">>>> }

RouterLayouts ==
    { [lead |-> <<>>, gap |-> <<" ">>, trail |-> <<>>],
      [lead |-> <<" ">>, gap |-> <<"\t", " ">>, trail |-> <<" ", "\t">>] }

RouterLines ==
    { Typed(v[1], v[2], a, l.lead, l.gap, l.trail) :
          v \in RouterVerbs, a \in RouterArgs, l \in RouterLayouts }

InitRouter == Init /\ root = RootW /\ editor = FileA

NextRouter ==
    \/ ResolveWebviewView
    \/ \E typed \in RouterLines : PostMessageToExtension(typed, MaxSubmits)
    \/ ClickShowLogs(MaxSubmits)
    \/ HandleUserCommand

SpecRouter == InitRouter /\ [][NextRouter]_vars

\* ------------------------------------------------------------ test file name specification
\* Generate-and-Verify over source files of several names.

SourceNames ==
    { <<"f", "o", "o", ".", "j", "s">>, <<"b", "a", "r", ".", "c", "o", "m", "p", "o", "n", "e", "n", "t", ".", "t", "s", "x">>, <<"x", ".", "j", "s", "x">>, <<"m", ".", "t", "s">>,
      <<"a", ".", "t", "s", ".", "j", "s">>, <<"n", ".", "m", "d">>, <<"y", ".", "j", "s", "o", "n">>, <<"l", "i", "b", ".", "m", "i", "n", ".", "j", "s">> }

NamesFs ==
    [p \in {PathJoin(<<RootW, n>>) : n \in SourceNames} |-> File(<<"S">>)] @@ InitialFs

\* the same folder after an earlier run: tests/ is there and holds a test
\* file for foo.js
NamesFsWithTests ==
    (<<"/", "w", "/", "t", "e", "s", "t", "s">> :> Dir) @@ (<<"/", "w", "/", "t", "e", "s", "t", "s", "/", "f", "o", "o", ".", "t", "e", "s", "t", ".", "j", "s">> :> File(<<"O", "L", "D">>)) @@ NamesFs

NameLines == { Plain(<<"/", "t", "e", "s", "t">>, <<n>>) : n \in SourceNames }

InitNames ==
    /\ view = FALSE
    /\ root = RootW
    /\ editor = <<>>
    /\ fs \in {NamesFs, NamesFsWithTests}
    /\ cmds = <<>>
    /\ pending = <<>>
    /\ inv = <<>>
    /\ msgs = <<>>

NextNames ==
    \/ ResolveWebviewView
    \/ \E typed \in NameLines : PostMessageToExtension(typed, MaxSubmits)
    \/ HandleUserCommand
    \/ \E i \in 1..Len(inv) : RunTests(i)
    \/ \E i \in 1..Len(inv) : RunTestsResponse(i)
    \/ \E i \in 1..Len(inv) : RunTestsExecCallback(i)

SpecNames == InitNames /\ [][NextNames]_vars


\* ------------------------------------------------------------ flow analysis specification
\* Flow Analysis alone, in a project folder with two matching files and in
\* one with more matching files than the cap.

FlowLines ==
    { Plain(<<"/", "f", "l", "o", "w">>, <<>>),
      Plain(<<"/", "f", "l", "o", "w">>, <<ArgA>>),
      Typed(<<"/", "F", "L", "O", "W">>, <<"/", "f", "l", "o", "w">>, <<>>, <<" ">>, <<" ">>, <<" ">>) }

InitFlow ==
    /\ view = FALSE
    /\ root \in {RootW, RootB}
    /\ editor = <<>>
    /\ fs = BigFs
    /\ cmds = <<>>
    /\ pending = <<>>
    /\ inv = <<>>
    /\ msgs = <<>>

NextFlow ==
    \/ ResolveWebviewView
    \/ \E typed \in FlowLines : PostMessageToExtension(typed, MaxSubmits)
    \/ HandleUserCommand
    \/ \E i \in 1..Len(inv) : RunFlow(i)
    \/ \E i \in 1..Len(inv) : RunFlowFiles(i)
    \/ \E i \in 1..Len(inv) : RunFlowResponse(i)

SpecFlow == InitFlow /\ [][NextFlow]_vars

\* ------------------------------------------------------------ help specification
\* /help in several spellings, with and without arguments, before and after
\* other commands.

HelpVerbs == {<<"/", "h", "e", "l", "p">>, <<"/", "H", "E", "L", "P">>, <<"/", "H", "e", "l", "p">>}

HelpLines ==
    { Typed(v, <<"/", "h", "e", "l", "p">>, a, l.lead, l.gap, l.trail) :
          v \in HelpVerbs, a \in RouterArgs, l \in RouterLayouts }

OtherLines ==
    { Plain(<<"/", "e", "n", "v">>, <<ArgA>>),
      Plain(<<"/", "h", "e", "l", "p", "m", "e">>, <<>>),
      Plain(<<"h", "e", "l", "p">>, <<>>) }

NextHelp ==
    \/ ResolveWebviewView
    \/ \E typed \in HelpLines \cup OtherLines : PostMessageToExtension(typed, MaxHelpSubmits)
    \/ HandleUserCommand
    \/ \E i \in 1..Len(inv) : RunEnv(i)

SpecHelp == InitRouter /\ [][NextHelp]_vars

\* ------------------------------------------------------------ concurrent generate-and-verify specification
\* Generate-and-Verify invocations side by side for the same source file,
\* and so for the same destination path, the endpoint answering with either
\* of two texts.

PairLines == { Plain(<<"/", "t", "e", "s", "t">>, <<ArgA>>) }

PairResponses ==
    { Response(FALSE, FALSE, <<>>),
      Response(TRUE, TRUE, <<"o", "k">>),
      Response(TRUE, TRUE, <<"k", "2">>) }

InitPair ==
    /\ view = FALSE
    /\ root = RootW
    /\ editor = <<>>
    /\ fs = InitialFs
    /\ cmds = <<>>
    /\ pending = <<>>
    /\ inv = <<>>
    /\ msgs = <<>>

NextPair ==
    \/ ResolveWebviewView
    \/ \E typed \in PairLines : PostMessageToExtension(typed, MaxPairSubmits)
    \/ HandleUserCommand
    \/ \E i \in 1..Len(inv) : RunTests(i)
    \/ \E i \in 1..Len(inv) : RunTestsResponseWith(i, PairResponses)
    \/ \E i \in 1..Len(inv) : RunTestsExecCallback(i)

SpecPair == InitPair /\ [][NextPair]_vars

\* ------------------------------------------------------------ claims: the router

\* the messages an invocation has posted, in order
MsgsOf(i) == SelectSeq(msgs, LAMBDA m : m.inv = i)

\* the messages the router itself posted for user action k
RouterMsgsOf(k) == SelectSeq(msgs, LAMBDA m : m.inv = 0 /\ m.src = k)

InvsOf(k) == {i \in 1..Len(inv) : inv[i].src = k}

PendingOf(k) == {j \in 1..Len(pending) : pending[j].src = k}

\* the argument tokens rejoined with single spaces
RECURSIVE Rejoined(_)
Rejoined(args) ==
    IF args = <<>> THEN <<>>
    ELSE IF Len(args) = 1 THEN args[1]
    ELSE args[1] \o <<" ">> \o Rejoined(Tail(args))

RecognizedVerbs ==
    { <<"/", "f", "l", "o", "w">>, <<"/", "s", "u", "m", "m", "a", "r", "y">>, <<"/", "a", "n", "a", "l", "y", "z", "e">>, <<"/", "t", "e", "s", "t">>, <<"/", "l", "o", "g", "s">>,
      <<"/", "e", "n", "v">>, <<"/", "e", "n", "v", "i", "r", "o", "n", "m", "e", "n", "t">>, <<"/", "h", "e", "l", "p">>, <<"s", "h", "o", "w", "c", "u", "r", "r", "e", "n", "t", "l", "o", "g", "s">> }

\* the target and argument the command table gives a line
Expected(t) ==
    LET arg == Rejoined(t.args)
    IN  CASE t.canon = <<"/", "f", "l", "o", "w">> -> [cmd |-> "devforge.runFlow", arg |-> <<>>]
          [] t.canon \in {<<"/", "s", "u", "m", "m", "a", "r", "y">>, <<"/", "a", "n", "a", "l", "y", "z", "e">>} ->
                [cmd |-> "devforge.runSummary", arg |-> arg]
          [] t.canon = <<"/", "t", "e", "s", "t">> -> [cmd |-> "devforge.runTests", arg |-> arg]
          [] t.canon = <<"/", "l", "o", "g", "s">> ->
                [cmd |-> "devforge.runLogs",
                 arg |-> IF t.args = <<>> THEN <<"s", "e", "r", "v", "e", "r", ".", "l", "o", "g">> ELSE arg]
          [] t.canon \in {<<"/", "e", "n", "v">>, <<"/", "e", "n", "v", "i", "r", "o", "n", "m", "e", "n", "t">>} ->
                [cmd |-> "devforge.runEnv",
                 arg |-> IF t.args = <<>> THEN <<"d", "e", "f", "a", "u", "l", "t">> ELSE arg]
          [] t.canon = <<"s", "h", "o", "w", "c", "u", "r", "r", "e", "n", "t", "l", "o", "g", "s">> ->
                [cmd |-> "devforge.runLogs", arg |-> <<"s", "e", "r", "v", "e", "r", ".", "l", "o", "g">>]
          [] OTHER -> [cmd |-> "none", arg |-> <<>>]

\* C1: every received command line is mapped by its lower-cased first token to
\* exactly one target: each message a user action posted is either still
\* pending or has produced exactly one thing, an invocation of the command the
\* table names with the argument the table gives (the default where the
\* argument is empty, the fixed 'server.log' for the shortcut alias), or, for
\* /help, the help message and no invocation.
C1_RouterDispatch ==
    /\ \A i \in 1..Len(inv) :
          LET e == Expected(cmds[inv[i].src])
          IN  inv[i].cmd = e.cmd /\ inv[i].arg = e.arg
    /\ \A k \in 1..Len(cmds) :
          /\ Cardinality(InvsOf(k)) + Len(RouterMsgsOf(k)) + Cardinality(PendingOf(k))
                = cmds[k].posts
          /\ cmds[k].canon = <<"/", "h", "e", "l", "p">> =>
                /\ InvsOf(k) = {}
                /\ \A j \in 1..Len(RouterMsgsOf(k)) : RouterMsgsOf(k)[j].kind = "help"
          /\ cmds[k].canon \in RecognizedVerbs \ {<<"/", "h", "e", "l", "p">>} => RouterMsgsOf(k) = <<>>

\* C1 witness: '/LOGS', typed in upper case after a blank and with no
\* argument, has started the log tail with 'server.log'
C1_Witness ==
    \E i \in 1..Len(inv) :
        LET t == cmds[inv[i].src]
        IN  /\ t.verb = <<"/", "L", "O", "G", "S">>
            /\ t.args = <<>>
            /\ t.lead # <<>>
            /\ inv[i].cmd = "devforge.runLogs"
            /\ inv[i].arg = <<"s", "e", "r", "v", "e", "r", ".", "l", "o", "g">>

\* C2 as stated: a line whose first token is no recognized verb starts no
\* pipeline and yields exactly one message, which contains the verb as the
\* user typed it
C2_EchoesVerbAsTyped ==
    \A k \in 1..Len(cmds) :
        (cmds[k].canon \notin RecognizedVerbs /\ PendingOf(k) = {}) =>
            /\ InvsOf(k) = {}
            /\ Len(RouterMsgsOf(k)) = 1
            /\ RouterMsgsOf(k)[1].kind = "unrecognized"
            /\ RouterMsgsOf(k)[1].a = cmds[k].verb

\* C2 amended: a line whose first token is no recognized verb starts no
\* pipeline and yields exactly one message, the 'unrecognized command' text
\* with its /help hint, which contains the first token in lower case
C2_EchoesLowerCasedVerb ==
    \A k \in 1..Len(cmds) :
        (cmds[k].canon \notin RecognizedVerbs /\ PendingOf(k) = {}) =>
            /\ InvsOf(k) = {}
            /\ Len(RouterMsgsOf(k)) = 1
            /\ RouterMsgsOf(k)[1].kind = "unrecognized"
            /\ RouterMsgsOf(k)[1].a = cmds[k].canon

\* C2 witness: '/Bogus' has been answered
C2_Witness ==
    \E k \in 1..Len(cmds) :
        /\ cmds[k].verb = <<"/", "B", "o", "g", "u", "s">>
        /\ Len(RouterMsgsOf(k)) = 1
        /\ RouterMsgsOf(k)[1].a = <<"/", "b", "o", "g", "u", "s">>

\* the same line with its verb in lower case and single spaces
Canonical(t) == t.canon \o Gapped(t.args, <<" ">>)

PassesArgument(i) ==
    \/ inv[i].cmd \in {"devforge.runSummary", "devforge.runTests"}
    \/ /\ inv[i].cmd \in {"devforge.runLogs", "devforge.runEnv"}
       /\ cmds[inv[i].src].canon # <<"s", "h", "o", "w", "c", "u", "r", "r", "e", "n", "t", "l", "o", "g", "s">>
       /\ cmds[inv[i].src].args # <<>>

\* C3: verb matching ignores letter case and the argument keeps it: what a
\* typed line dispatches to is what the same line with a lower-case verb and
\* single spaces dispatches to; two lines that differ only in the case of the
\* verb or in whitespace start the same command with the same argument; and
\* the argument passed on is the remaining tokens in their typed case and
\* order, joined by single spaces.
C3_CaseAndArgument ==
    /\ \A i \in 1..Len(inv) :
          LET t == cmds[inv[i].src]
              r == Route(Canonical(t))
          IN  /\ inv[i].cmd = r.cmd
              /\ inv[i].arg = r.arg
              /\ PassesArgument(i) => inv[i].arg = Rejoined(t.args)
    /\ \A i, j \in 1..Len(inv) :
          (/\ cmds[inv[i].src].canon = cmds[inv[j].src].canon
           /\ cmds[inv[i].src].args = cmds[inv[j].src].args) =>
              inv[i].cmd = inv[j].cmd /\ inv[i].arg = inv[j].arg
    /\ \A k \in 1..Len(cmds) :
          \A j \in 1..Len(RouterMsgsOf(k)) :
              RouterMsgsOf(k)[j].kind = "help" <=> cmds[k].canon = <<"/", "h", "e", "l", "p">>

\* C3 witness: '/Summary' typed with a capital, extra whitespace and the two
\* tokens 'My' and 'F.JS' has started the summary of 'My F.JS'
C3_Witness ==
    \E i \in 1..Len(inv) :
        LET t == cmds[inv[i].src]
        IN  /\ t.verb = <<"/", "S", "u", "m", "m", "a", "r", "y">>
            /\ t.gap = <<"\t", " ">>
            /\ inv[i].cmd = "devforge.runSummary"
            /\ inv[i].arg = <<"M", "y", " ", "F", ".", "J", "S">>


\* ------------------------------------------------------------ claims: the pipelines

Finished(i) == inv[i].pc = "done"

RemoteCommands == {"devforge.runSummary", "devforge.runTests", "devforge.runFlow"}

\* the messages that end a pipeline; "testSaved" is the only progress message
FinalKinds ==
    {"envTriggered", "summaryNotFound", "summaryResult", "agentFailed",
     "testNotFound", "generationFailed", "saveFailed", "testResult",
     "flowNoRoot", "flowNoFiles", "flowFailed", "flowResult",
     "logsNoRoot", "logsFailed", "logsSnapshot"}

\* C4 as stated: every pipeline invocation that has no work left has posted
\* one or two messages, the last of them a final result or failure message
C4_OneOrTwoMessages ==
    \A i \in 1..Len(inv) :
        Finished(i) =>
            /\ Len(MsgsOf(i)) \in {1, 2}
            /\ MsgsOf(i)[Len(MsgsOf(i))].kind \in FinalKinds

RemoteFailed(i) == inv[i].resp # <<>> /\ ~inv[i].resp[1].ok

\* C5 as stated: in Summarize, Generate-and-Verify and Flow Analysis a failed
\* remote call is caught in the pipeline and becomes exactly one failure
\* message, and nothing is written or executed after it
C5_RemoteFailureCaught ==
    \A i \in 1..Len(inv) :
        (inv[i].cmd \in RemoteCommands /\ RemoteFailed(i)) =>
            /\ ~inv[i].unhandled
            /\ Finished(i)
            /\ Len(MsgsOf(i)) = 1
            /\ MsgsOf(i)[1].kind \in {"agentFailed", "flowFailed", "generationFailed"}
            /\ inv[i].nWrite = 0
            /\ inv[i].nExec = 0

\* the explicit argument resolved against the project root, or else the
\* active file, is an existing file
ResolvesToFile(i) ==
    IF inv[i].arg # <<>>
    THEN IsFile(fs, PathJoin(<<root, inv[i].arg>>))
    ELSE editor # <<>> /\ IsFile(fs, editor)

\* C6 as stated: a Generate-and-Verify invocation whose argument and active
\* file resolve to no existing file ends at Locate with exactly one 'file not
\* found' message and no read, remote call, write or execution
C6_NotFoundEndsAtLocate ==
    \A i \in 1..Len(inv) :
        (inv[i].cmd = "devforge.runTests" /\ inv[i].pc # "start" /\ ~ResolvesToFile(i)) =>
            /\ Finished(i)
            /\ ~inv[i].unhandled
            /\ Len(MsgsOf(i)) = 1
            /\ MsgsOf(i)[1].kind = "testNotFound"
            /\ inv[i].nRead = 0
            /\ inv[i].nRemote = 0
            /\ inv[i].nWrite = 0
            /\ inv[i].nExec = 0

\* C7 as stated: in Summarize and Generate-and-Verify an empty argument
\* resolves to the path of the active file itself, and with an existing
\* active file the pipeline goes past Locate with that file as its target
C7_EmptyArgumentUsesActiveFile ==
    \A i \in 1..Len(inv) :
        (/\ inv[i].cmd \in {"devforge.runSummary", "devforge.runTests"}
         /\ inv[i].pc # "start"
         /\ inv[i].arg = <<>>
         /\ editor # <<>>
         /\ IsFile(fs, editor)) =>
            /\ inv[i].target = editor
            /\ \A j \in 1..Len(MsgsOf(i)) :
                  MsgsOf(i)[j].kind \notin {"summaryNotFound", "testNotFound"}

\* the remote call answered, and the answer has no result text or a text
\* that contains 'failed'
GenerationRejected(i) ==
    /\ inv[i].resp # <<>>
    /\ inv[i].resp[1].ok
    /\ \/ ~inv[i].resp[1].has
       \/ inv[i].resp[1].summary = <<>>
       \/ Includes(inv[i].resp[1].summary, <<"f", "a", "i", "l", "e", "d">>)

\* C8: a Generate-and-Verify invocation whose remote result text is absent,
\* empty or contains 'failed' ends at Generate with exactly one
\* generation-failure message that carries the returned text; it makes no
\* directory, writes no file and runs no test command.
C8_GenerationFailureStops ==
    \A i \in 1..Len(inv) :
        (inv[i].cmd = "devforge.runTests" /\ GenerationRejected(i)) =>
            /\ Finished(i)
            /\ ~inv[i].unhandled
            /\ Len(MsgsOf(i)) = 1
            /\ MsgsOf(i)[1].kind = "generationFailed"
            /\ inv[i].resp[1].has => MsgsOf(i)[1].a = inv[i].resp[1].summary
            /\ inv[i].nMkdir = 0
            /\ inv[i].nWrite = 0
            /\ inv[i].nExec = 0
            /\ inv[i].testFile = <<>>

\* C8 witness: the remote service answered 'x failed' and the invocation has
\* ended with the generation-failure message
C8_Witness ==
    \E i \in 1..Len(inv) :
        /\ inv[i].cmd = "devforge.runTests"
        /\ inv[i].resp = <<Response(TRUE, TRUE, <<"x", " ", "f", "a", "i", "l", "e", "d">>)>>
        /\ Finished(i)
        /\ Len(MsgsOf(i)) = 1
        /\ MsgsOf(i)[1].kind = "generationFailed"

\* the name with '.test' inserted before its last extension
WithTestMarker(base) ==
    LET dots == {k \in 1..Len(base) : base[k] = "."}
        d    == IF dots = {} THEN Len(base) + 1
                ELSE CHOOSE k \in dots : \A m \in dots : m <= k
    IN  SubSeq(base, 1, d - 1) \o <<".", "t", "e", "s", "t">> \o SubSeq(base, d, Len(base))

\* C9 as stated: the destination file name is the source base name with
\* '.test' inserted immediately before its final extension, it differs from
\* the source base name, and the destination is under tests/ in the project
\* root
C9_TestFileName ==
    \A i \in 1..Len(inv) :
        (inv[i].cmd = "devforge.runTests" /\ inv[i].testFile # <<>>) =>
            LET base == Basename(inv[i].target)
                name == Basename(inv[i].testFile)
            IN  /\ name = WithTestMarker(base)
                /\ name # base
                /\ inv[i].testFile = root \o <<"/", "t", "e", "s", "t", "s", "/">> \o name

\* C10: a Flow Analysis in a project folder none of whose files match ends
\* with exactly one 'no relevant files found' message, having read no file
\* and made no remote call.
C10_NoFilesNoRemoteCall ==
    \A i \in 1..Len(inv) :
        (/\ inv[i].cmd = "devforge.runFlow"
         /\ root = RootE
         /\ inv[i].pc \notin {"start", "awaitFiles"}) =>
            /\ Finished(i)
            /\ Len(MsgsOf(i)) = 1
            /\ MsgsOf(i)[1].kind = "flowNoFiles"
            /\ inv[i].nRead = 0
            /\ inv[i].nRemote = 0
            /\ inv[i].resp = <<>>
            /\ inv[i].files = <<>>

\* C10 witness: a Flow Analysis in the folder without matching files has ended
C10_Witness ==
    \E i \in 1..Len(inv) :
        /\ inv[i].cmd = "devforge.runFlow"
        /\ root = RootE
        /\ Finished(i)
        /\ MsgsOf(i) # <<>>
        /\ MsgsOf(i)[1].kind = "flowNoFiles"


\* ------------------------------------------------------------ claims: flow context, log tail, persist

HeaderOpen  == <<"#", "#", "#", " ", "F", "I", "L", "E", ":", " ">>
HeaderClose == <<" ", "#", "#", "#">>

\* the first position from i on at which p starts in s, or 0
RECURSIVE IndexFrom(_, _, _)
IndexFrom(s, i, p) ==
    IF i + Len(p) - 1 > Len(s) THEN 0
    ELSE IF StartsWithAt(s, i, p) THEN i
    ELSE IndexFrom(s, i + 1, p)

\* the paths named by the file headers in a context blob, in order of
\* appearance: what is between each '### FILE: ' and the next ' ###'
RECURSIVE HeadersFrom(_, _)
HeadersFrom(blob, i) ==
    LET open == IndexFrom(blob, i, HeaderOpen)
    IN  IF open = 0 THEN <<>>
        ELSE LET from  == open + Len(HeaderOpen)
                 close == IndexFrom(blob, from, HeaderClose)
             IN  IF close = 0 THEN <<>>
                 ELSE <<SubSeq(blob, from, close - 1)>>
                          \o HeadersFrom(blob, close + Len(HeaderClose))

\* C11 as stated: a Flow Analysis invocation that sends its request has
\* discovered N files, 1 <= N <= 8, and the context blob it sends contains
\* exactly N file headers, the k-th naming the path of the k-th discovered
\* file relative to the project root; and no invocation discovers, reads or
\* sends more than 8 files.
C11_ContextHeaders ==
    \A i \in 1..Len(inv) :
        inv[i].cmd = "devforge.runFlow" =>
            /\ Len(inv[i].files) <= MAX_CONTEXT_FILES
            /\ inv[i].nRead <= MAX_CONTEXT_FILES
            /\ inv[i].nRemote = 1 =>
                 LET N       == Len(inv[i].files)
                     headers == HeadersFrom(inv[i].sent.project_context, 1)
                 IN  /\ 1 <= N
                     /\ inv[i].nRead = N
                     /\ Len(headers) = N
                     /\ \A k \in 1..N : root \o <<"/">> \o headers[k] = inv[i].files[k]

\* C12: a log tail started with a folder open posts nothing until the shell
\* command settles and exactly one message when it has: if the command
\* failed or wrote anything to stderr, the failure message, naming the
\* requested file and carrying the error text (which includes what was
\* captured on stderr); otherwise the snapshot message, naming the file and
\* carrying stdout unchanged.
C12_LogTailOutcome ==
    \A i \in 1..Len(inv) :
        (inv[i].cmd = "devforge.runLogs" /\ root # <<>>) =>
            /\ inv[i].pc = "awaitExec" => MsgsOf(i) = <<>> /\ inv[i].exec = <<>>
            /\ inv[i].pc = "done" =>
                 LET res == inv[i].exec[1]
                     ms  == MsgsOf(i)
                 IN  /\ Len(inv[i].exec) = 1
                     /\ Len(ms) = 1
                     /\ ms[1].a = inv[i].arg
                     /\ IF res.error \/ Len(res.stderr) > 0
                        THEN /\ ms[1].kind = "logsFailed"
                             /\ Includes(ms[1].b, res.stderr)
                             /\ Len(ms[1].b) > 0
                        ELSE /\ ms[1].kind = "logsSnapshot"
                             /\ ms[1].b = res.stdout

\* '/logs app.log' whose command exits normally but writes to stderr: the
\* failure message names app.log and carries the stderr text
C12_Witness ==
    \E i \in 1..Len(inv) :
        /\ inv[i].cmd = "devforge.runLogs"
        /\ inv[i].pc = "done"
        /\ inv[i].arg = <<"a", "p", "p", ".", "l", "o", "g">>
        /\ inv[i].exec = <<[error |-> FALSE, stdout |-> <<>>, stderr |-> <<"E">>]>>
        /\ MsgsOf(i) = <<Msg(i, inv[i].src, "logsFailed", <<"a", "p", "p", ".", "l", "o", "g">>, <<"E">>)>>

\* C13: in the step in which a Generate-and-Verify invocation persists, the
\* destination <root>/tests/<test file name> becomes a file whose content is
\* exactly the generated code of that invocation, whatever was at the
\* destination before.
C13_PersistRoundTrip ==
    [][\A i \in 1..Len(inv) :
          (inv[i].cmd = "devforge.runTests" /\ inv[i].persist = "none" /\ inv'[i].persist = "ok") =>
              LET dest == PathJoin(<<root, TestsDirName, TestFilename(Basename(inv[i].target))>>)
              IN  /\ inv'[i].testFile = dest
                  /\ AbsPath(dest) \in DOMAIN fs'
                  /\ fs'[AbsPath(dest)].kind = "file"
                  /\ fs'[AbsPath(dest)].content = inv'[i].resp[1].summary
                  /\ inv'[i].nWrite = 1]_vars

\* '/test foo.js' in the folder where tests/foo.test.js already held other
\* text (no directory had to be made): the file now holds the generated code
C13_Witness ==
    \E i \in 1..Len(inv) :
        /\ inv[i].cmd = "devforge.runTests"
        /\ inv[i].persist = "ok"
        /\ inv[i].nMkdir = 0
        /\ inv[i].testFile = <<"/", "w", "/", "t", "e", "s", "t", "s", "/", "f", "o", "o", ".", "t", "e", "s", "t", ".", "j", "s">>
        /\ NamesFsWithTests[inv[i].testFile].content = <<"O", "L", "D">>
        /\ fs[inv[i].testFile].content = <<"o", "k">>
        /\ inv[i].resp[1].summary = <<"o", "k">>

\* ------------------------------------------------------------ claims: concurrency, help, generate-and-verify

\* C14 as stated: every invocation that has settled, whatever else was in
\* flight beside it, has posted its own final message exactly once
C14_EachFinalMessageOnce ==
    \A i \in 1..Len(inv) :
        Finished(i) =>
            Len(SelectSeq(MsgsOf(i), LAMBDA m : m.kind \in FinalKinds)) = 1

IsHelp(k) == cmds[k].canon = <<"/", "h", "e", "l", "p">>

HelpMessages == SelectSeq(msgs, LAMBDA m : m.kind = "help")

\* C15: a received line whose first token is /help in any letter case, with
\* or without arguments and whatever was typed before it, yields exactly one
\* message, the help text, in which nothing of the line is interpolated, and
\* starts no command invocation; any two help messages carry the same text;
\* and the step that posts the help text leaves the file system and every
\* invocation (its remote calls, reads, writes and subprocesses) as they were.
C15_HelpFixed ==
    /\ [](\A k \in 1..Len(cmds) :
            (IsHelp(k) /\ PendingOf(k) = {}) =>
                /\ RouterMsgsOf(k) = <<Msg(0, k, "help", <<>>, <<>>)>>
                /\ InvsOf(k) = {})
    /\ [](\A j, k \in 1..Len(HelpMessages) :
            /\ HelpMessages[j].a = HelpMessages[k].a
            /\ HelpMessages[j].b = HelpMessages[k].b
            /\ IsHelp(HelpMessages[k].src))
    /\ [][Len(SelectSeq(msgs', LAMBDA m : m.kind = "help")) > Len(HelpMessages)
             => /\ UNCHANGED <<fs, inv>>
                /\ Len(msgs') = Len(msgs) + 1]_vars

\* ' /HELP' with two arguments and extra whitespace, then '/help', both
\* handled: the two help messages are the same text
C15_Witness ==
    /\ Len(cmds) = 2
    /\ cmds[1].verb = <<"/", "H", "E", "L", "P">> /\ Len(cmds[1].args) = 2 /\ cmds[1].lead = <<" ">>
    /\ cmds[2].verb = <<"/", "h", "e", "l", "p">> /\ cmds[2].args = <<>>
    /\ pending = <<>>
    /\ msgs = <<Msg(0, 1, "help", <<>>, <<>>), Msg(0, 2, "help", <<>>, <<>>)>>

Kinds(ms) == [k \in 1..Len(ms) |-> ms[k].kind]

StageRank(pc) ==
    CASE pc = "start" -> 0
      [] pc = "awaitResponse" -> 1
      [] pc = "awaitExec" -> 2
      [] pc = "done" -> 3

\* a Generate-and-Verify invocation's stages each happened at most once and
\* each only after the one before it succeeded
C16_StagesInOrder ==
    \A i \in 1..Len(inv) :
        inv[i].cmd = "devforge.runTests" =>
            /\ inv[i].nRead <= 1 /\ inv[i].nRemote <= 1
            /\ inv[i].nMkdir <= 1 /\ inv[i].nWrite <= 1 /\ inv[i].nExec <= 1
            /\ inv[i].nRemote = 1 => (inv[i].nRead = 1 /\ inv[i].target # <<>>)
            /\ inv[i].nWrite = 1 =>
                  /\ inv[i].nRemote = 1
                  /\ inv[i].resp # <<>> /\ inv[i].resp[1].ok
                  /\ Len(inv[i].resp[1].summary) > 0
            /\ inv[i].nExec = 1 =>
                  /\ inv[i].nWrite = 1
                  /\ inv[i].persist = "ok"
                  /\ AbsPath(inv[i].testFile) \in DOMAIN fs
                  /\ fs[AbsPath(inv[i].testFile)].kind = "file"
            /\ inv[i].pc = "awaitExec" => (inv[i].nExec = 1 /\ Kinds(MsgsOf(i)) = <<"testSaved">>)
            /\ inv[i].exec # <<>> =>
                  (inv[i].nExec = 1 /\ Kinds(MsgsOf(i)) = <<"testSaved", "testResult">>)
            /\ (\E k \in 1..Len(MsgsOf(i)) : MsgsOf(i)[k].kind = "testResult") => inv[i].exec # <<>>

\* C16: Generate-and-Verify goes Locate, Generate, Persist, Execute and never
\* back: the test command is started only after the write succeeded, the
\* 'saved' progress message comes before the result message, the file is
\* written at most once in an invocation, and no step moves an invocation
\* to an earlier stage or lowers a count of what it has done.
C16_LinearPipeline ==
    /\ []C16_StagesInOrder
    /\ [][\A i \in 1..Len(inv) :
            inv[i].cmd = "devforge.runTests" =>
                /\ inv'[i].pc # inv[i].pc => StageRank(inv'[i].pc) > StageRank(inv[i].pc)
                /\ inv'[i].nRead >= inv[i].nRead
                /\ inv'[i].nRemote >= inv[i].nRemote
                /\ inv'[i].nWrite >= inv[i].nWrite
                /\ inv'[i].nExec >= inv[i].nExec]_vars

\* a '/test' invocation that ran through all four stages: saved, then the result
C16_Witness ==
    \E i \in 1..Len(inv) :
        /\ inv[i].cmd = "devforge.runTests"
        /\ inv[i].pc = "done"
        /\ inv[i].nRead = 1 /\ inv[i].nRemote = 1 /\ inv[i].nWrite = 1 /\ inv[i].nExec = 1
        /\ Kinds(MsgsOf(i)) = <<"testSaved", "testResult">>
        /\ fs[inv[i].testFile].content = inv[i].resp[1].summary

PersistFailed(i) == inv[i].persist \in {"mkdirFailed", "writeFailed"}

\* C17: a Generate-and-Verify invocation whose directory creation or file
\* write failed has settled with exactly one message, the save failure; it
\* has not posted the 'saved' message and has not started the test command;
\* after a failed directory creation the write was not attempted.
C17_SaveFailureStops ==
    \A i \in 1..Len(inv) :
        (inv[i].cmd = "devforge.runTests" /\ PersistFailed(i)) =>
            /\ inv[i].pc = "done"
            /\ Kinds(MsgsOf(i)) = <<"saveFailed">>
            /\ inv[i].nExec = 0
            /\ inv[i].exec = <<>>
            /\ ~inv[i].unhandled
            /\ inv[i].persist = "mkdirFailed" => (inv[i].nMkdir = 1 /\ inv[i].nWrite = 0)
            /\ inv[i].persist = "writeFailed" => inv[i].nWrite = 1

\* '/test a.js' for which tests/ was made but the file could not be written
C17_Witness ==
    \E i \in 1..Len(inv) :
        /\ inv[i].cmd = "devforge.runTests"
        /\ inv[i].persist = "writeFailed"
        /\ inv[i].nMkdir = 1
        /\ <<"/", "w", "/", "t", "e", "s", "t", "s">> \in DOMAIN fs
        /\ AbsPath(inv[i].testFile) \notin DOMAIN fs
        /\ Kinds(MsgsOf(i)) = <<"saveFailed">>

\* the text has the letters p, a, s, s in a row, each in either case
HasPassIndicator(s) ==
    \E k \in 1..Len(s) - 3 :
        /\ s[k] \in {"p", "P"}
        /\ s[k + 1] \in {"a", "A"}
        /\ s[k + 2] \in {"s", "S"}
        /\ s[k + 3] \in {"s", "S"}

\* C18: when the test command has settled, the invocation's last message is
\* the one result message; it carries stdout followed by stderr, whole; and
\* it says PASSED exactly when that text contains 'pass' in any letter case
\* and the command reported no execution error, FAILED otherwise.
C18_PassedIffPassAndNoError ==
    \A i \in 1..Len(inv) :
        (inv[i].cmd = "devforge.runTests" /\ inv[i].exec # <<>>) =>
            LET res    == inv[i].exec[1]
                output == res.stdout \o res.stderr
                last   == MsgsOf(i)[Len(MsgsOf(i))]
            IN  /\ inv[i].pc = "done"
                /\ Len(SelectSeq(MsgsOf(i), LAMBDA m : m.kind = "testResult")) = 1
                /\ last.kind = "testResult"
                /\ last.b = output
                /\ last.a = (HasPassIndicator(output) /\ ~res.error)

\* both verdicts: FAILED for 'PASS' on stdout with an execution error is
\* reached in the same runs; here PASSED for '1 ' on stdout and 'Pass' on
\* stderr with no error
C18_Witness ==
    \E i \in 1..Len(inv) :
        /\ inv[i].cmd = "devforge.runTests"
        /\ inv[i].exec = <<[error |-> FALSE, stdout |-> <<"1", " ">>, stderr |-> <<"P", "a", "s", "s">>]>>
        /\ MsgsOf(i)[2] = Msg(i, inv[i].src, "testResult", TRUE, <<"1", " ", "P", "a", "s", "s">>)

\* C19: a Flow Analysis invocation in which the read of a discovered file
\* failed has settled with exactly one message, the flow failure; the files
\* after the failing one were not read; and it made no remote call and sent
\* no context.
C19_ReadFailureAborts ==
    \A i \in 1..Len(inv) :
        (inv[i].cmd = "devforge.runFlow" /\ inv[i].failedRead # 0) =>
            /\ inv[i].pc = "done"
            /\ Kinds(MsgsOf(i)) = <<"flowFailed">>
            /\ inv[i].nRead = inv[i].failedRead
            /\ inv[i].failedRead <= Len(inv[i].files)
            /\ inv[i].nRemote = 0
            /\ inv[i].resp = <<>>
            /\ ~inv[i].unhandled

\* the third of eight discovered files could not be read: five files were
\* left unread
C19_Witness ==
    \E i \in 1..Len(inv) :
        /\ inv[i].cmd = "devforge.runFlow"
        /\ Len(inv[i].files) = 8
        /\ inv[i].failedRead = 3
        /\ inv[i].nRead = 3
        /\ inv[i].nRemote = 0
        /\ Kinds(MsgsOf(i)) = <<"flowFailed">>

\* ------------------------------------------------------------ claims: remote calls

\* the path the handler looks for is not there
NotLocated(i) ==
    LET t == IF inv[i].cmd = "devforge.runSummary"
             THEN SummaryTargetPath(root, editor, inv[i].arg)
             ELSE TestsTargetPath(root, editor, inv[i].arg)
    IN  t = <<>> \/ AbsPath(t) \notin DOMAIN fs

SaidNotFound(i) ==
    \E k \in 1..Len(MsgsOf(i)) : MsgsOf(i)[k].kind \in {"summaryNotFound", "testNotFound"}

\* no invocation has made more than one remote call, a settled one with a
\* failed call included; log tail and environment bring-up, and Summarize
\* and Generate-and-Verify invocations whose target is not there, have made
\* none; /help and unrecognized lines start no invocation at all
C20_RemoteCalls ==
    /\ \A i \in 1..Len(inv) :
          /\ inv[i].nRemote \in {0, 1}
          /\ inv[i].resp # <<>> => inv[i].nRemote = 1
          /\ inv[i].cmd \in {"devforge.runLogs", "devforge.runEnv"} =>
                (inv[i].nRemote = 0 /\ inv[i].resp = <<>>)
          /\ (inv[i].cmd \in {"devforge.runSummary", "devforge.runTests"}
                /\ inv[i].pc # "start" /\ (NotLocated(i) \/ SaidNotFound(i))) =>
                (inv[i].nRemote = 0 /\ inv[i].resp = <<>> /\ inv[i].pc = "done")
    /\ \A k \in 1..Len(cmds) :
          cmds[k].canon \in {<<"/", "h", "e", "l", "p">>, <<"/", "b", "o", "g", "u", "s">>} => InvsOf(k) = {}

\* C20: no pipeline invocation makes more than one remote call - the request
\* is sent once and not again, whatever the outcome - and an invocation that
\* does not find its target, or is a log tail, an environment bring-up, /help
\* or an unrecognized line, makes none.
C20_AtMostOneRemoteCall ==
    /\ []C20_RemoteCalls
    /\ [][\A i \in 1..Len(inv) :
            /\ inv'[i].nRemote >= inv[i].nRemote
            /\ inv'[i].nRemote > inv[i].nRemote =>
                  (inv[i].nRemote = 0 /\ inv[i].resp = <<>> /\ inv'[i].pc = "awaitResponse")]_vars

\* '/summary a.js' whose one remote call failed: settled with the failure
\* message and one call made
C20_Witness ==
    \E i \in 1..Len(inv) :
        /\ inv[i].cmd = "devforge.runSummary"
        /\ inv[i].pc = "done"
        /\ inv[i].resp # <<>> /\ ~inv[i].resp[1].ok
        /\ inv[i].nRemote = 1
        /\ Kinds(MsgsOf(i)) = <<"agentFailed">>

\* ------------------------------------------------------------ claims: fallback, concurrent saves, delivery

\* the call succeeded and its response has no summary, or an empty one
NoResultText(i) ==
    /\ inv[i].resp # <<>>
    /\ inv[i].resp[1].ok
    /\ (~inv[i].resp[1].has \/ Len(inv[i].resp[1].summary) = 0)

\* C21: a Summarize or Flow Analysis invocation whose remote call succeeded
\* with a response that has no result text has settled with exactly one
\* message, the normal result message naming the file (or the project) and
\* carrying the fixed fallback string of its pipeline, and not the failure
\* message of the catch block.
C21_FallbackNotError ==
    \A i \in 1..Len(inv) :
        /\ (inv[i].cmd = "devforge.runSummary" /\ NoResultText(i)) =>
              /\ inv[i].pc = "done"
              /\ MsgsOf(i) = <<Msg(i, inv[i].src, "summaryResult",
                                   Basename(inv[i].target), SummaryFallback)>>
        /\ (inv[i].cmd = "devforge.runFlow" /\ NoResultText(i)) =>
              /\ inv[i].pc = "done"
              /\ MsgsOf(i) = <<Msg(i, inv[i].src, "flowResult", Basename(root), FlowFallback)>>

\* '/summary a.js' answered with an empty summary: the result message for
\* a.js with the fallback text
C21_Witness ==
    \E i \in 1..Len(inv) :
        /\ inv[i].cmd = "devforge.runSummary"
        /\ inv[i].resp = <<Response(TRUE, TRUE, <<>>)>>
        /\ MsgsOf(i) = <<Msg(i, inv[i].src, "summaryResult", ArgA, SummaryFallback)>>

\* C22: in the step in which a Generate-and-Verify invocation starts its
\* test command, whatever other invocations have done before, the file at
\* its destination path holds the code this invocation generated - also
\* when another invocation has the same destination path.
C22_OwnCodeAtExecStart ==
    [][\A i \in 1..Len(inv) :
          (inv[i].cmd = "devforge.runTests" /\ inv[i].nExec = 0 /\ inv'[i].nExec = 1) =>
              LET dest == AbsPath(inv'[i].testFile)
              IN  /\ dest \in DOMAIN fs'
                  /\ fs'[dest] = File(inv'[i].resp[1].summary)]_vars

\* two invocations for a.js, the first still running its tests on 'ok'
\* when the second, answered with 'k2', wrote the same path and started
\* its own tests
C22_Witness ==
    /\ Len(inv) = 2
    /\ inv[1].pc = "awaitExec" /\ inv[2].pc = "awaitExec"
    /\ inv[1].testFile = inv[2].testFile
    /\ inv[1].resp[1].summary = <<"o", "k">>
    /\ inv[2].resp[1].summary = <<"k", "2">>
    /\ fs[<<"/", "w", "/", "t", "e", "s", "t", "s", "/", "a", ".", "t", "e", "s", "t", ".", "j", "s">>].content = <<"k", "2">>
    /\ Len(msgs) = 2 /\ msgs[1].inv = 1 /\ msgs[2].inv = 2

\* the step handles a line the router answers itself (/help, unrecognized)
RouterAnswers == pending # <<>> /\ pending' = Tail(pending) /\ inv' = inv

\* the step takes invocation i to where its handler posts a message: the
\* 'saved' progress message, or the message it settles with
HandlerPosts(i) ==
    /\ inv'[i].pc # inv[i].pc
    /\ \/ inv'[i].pc = "done" /\ ~inv'[i].unhandled
       \/ inv'[i].cmd = "devforge.runTests" /\ inv'[i].pc = "awaitExec"

\* C23: no message of a command that came through the router is dropped.
\* Once a line has been received, the view is set, and it stays set; and
\* every step in which the router or a handler it started posts a message
\* is taken with the view set and adds exactly that one message to the
\* conversation.
C23_NeverDropped ==
    /\ []((cmds # <<>> \/ pending # <<>> \/ inv # <<>> \/ msgs # <<>>) => view)
    /\ [][view => view']_vars
    /\ [][(RouterAnswers \/ \E i \in 1..Len(inv) : HandlerPosts(i)) =>
             /\ view
             /\ Len(msgs') = Len(msgs) + 1
             /\ SubSeq(msgs', 1, Len(msgs)) = msgs]_vars

\* one click on Show Logs: both log tails it started have settled and both
\* their messages are in the conversation
C23_Witness ==
    /\ view
    /\ Len(inv) = 2
    /\ inv[1].pc = "done" /\ inv[2].pc = "done"
    /\ inv[1].src = inv[2].src
    /\ Len(msgs) = 2
    /\ msgs[1].inv # msgs[2].inv

====
